---- MODULE Spec2Model ----
(***************************************************************************)
(* Payment-gated day passes of the Sphere gaming MCP server.               *)
(*                                                                         *)
(* The model covers NostrService (src/src/nostr-service.ts), the           *)
(* PaymentTracker (payment-tracker.ts, stored at the end of src/Dockerfile)*)
(* and the check_access / get_game / confirm_payment tool handlers         *)
(* (src/unnamed/part_003).  Node runs one macrotask at a time: a tool      *)
(* handler runs until its next await on the network, an inbound relay      *)
(* event or a timer callback runs to completion, and the continuations of  *)
(* a promise settled by a callback run as microtasks before the next       *)
(* macrotask.  Every action below is one such macrotask.                   *)
(*                                                                         *)
(* Time is counted in ticks.  Unicity ids are sequences of tokens so that  *)
(* cleanUnicityId and toLowerCase are computed, not assumed.               *)
(***************************************************************************)
EXTENDS Integers, Sequences, FiniteSets, TLC

\* ---------------------------------------------------------------- bounds
MaxCalls == 2        \* tool invocations per run
MaxTime == 2         \* last clock tick
MaxResolves == 2     \* calls of resolvePubkey per run
MaxRuns == 2         \* starts of the server process on one DATA_DIR
MaxConnects == 3     \* connect() calls on one NostrService

\* ------------------------------------------------ configuration (config.ts)
ConfigAmount == 2            \* config.amount
PaymentTimeoutSeconds == 1   \* config.paymentTimeoutSeconds, in ticks
DurationMs == 2              \* PaymentTracker.durationMs, in ticks
CoinId == "coin"             \* config.coinId
PUBKEY_CACHE_TTL_MS == 2     \* freshness window of the pubkey cache, in ticks
MAX_RETRIES == 3             \* mintNametag: attempts to submit the commitment

\* ------------------------------------------------------------ input sets
Null == "null"

\* unicity_id arguments as token sequences
RawIds == { <<"alice">>, <<"@", "Alice">>, <<"nobody">> }

Tools == {"check_access", "get_game", "confirm_payment"}

Senders == {"pkA", "pkX"}

Amounts == {ConfigAmount - 1, ConfigAmount}

\* inbound relay events: not a token transfer, a transfer whose fields
\* cannot be parsed, a transfer without amount, a transfer with amount
Events ==
    { [kind |-> "other", sender |-> Null, hasAmount |-> FALSE, amount |-> 0],
      [kind |-> "malformed", sender |-> Null, hasAmount |-> FALSE, amount |-> 0] }
    \cup { [kind |-> "transfer", sender |-> s, hasAmount |-> FALSE, amount |-> 0] : s \in Senders }
    \cup { [kind |-> "transfer", sender |-> s, hasAmount |-> TRUE, amount |-> a] :
              s \in Senders, a \in Amounts }

\* the coin ids a transfer can carry
CoinIds == { CoinId, "othercoin" }

\* the reply-to references a transfer can carry: none (0) or a request id
ReplyTos == 0..MaxCalls

\* token transfers with the asset and the reply-to reference they carry
TaggedEvents ==
    { [kind |-> "transfer", sender |-> s, hasAmount |-> TRUE, amount |-> a,
       replyTo |-> r, coinId |-> k] :
          s \in Senders, a \in Amounts, r \in ReplyTos, k \in CoinIds }

\* ------------------------------------------------------- string helpers
\* variant: keys kept in the case they were given
LowerTokSame(t) == t

\* String.prototype.toLowerCase, token by token
LowerTok(t) == IF t = "Alice" THEN "alice" ELSE t

ToLowerCase(s) == [i \in 1..Len(s) |-> LowerTok(s[i])]

\* remove the elements at positions i .. i+n-1
RemoveAt(s, i, n) == SubSeq(s, 1, i - 1) \o SubSeq(s, i + n, Len(s))

\* s.replace("@unicity", ""): first occurrence only
ReplaceAtUnicity(s) ==
    LET hits == { i \in 1..(Len(s) - 1) : s[i] = "@" /\ s[i + 1] = "unicity" }
    IN  IF hits = {} THEN s
        ELSE RemoveAt(s, CHOOSE i \in hits : \A j \in hits : i <= j, 2)

\* s.replace("@", ""): first occurrence only
ReplaceAt(s) ==
    LET hits == { i \in 1..Len(s) : s[i] = "@" }
    IN  IF hits = {} THEN s
        ELSE RemoveAt(s, CHOOSE i \in hits : \A j \in hits : i <= j, 1)

RECURSIVE TrimLeft(_)
TrimLeft(s) == IF s # <<>> /\ Head(s) = " " THEN TrimLeft(Tail(s)) ELSE s

RECURSIVE TrimRight(_)
TrimRight(s) ==
    IF s # <<>> /\ s[Len(s)] = " " THEN TrimRight(SubSeq(s, 1, Len(s) - 1)) ELSE s

Trim(s) == TrimRight(TrimLeft(s))

cleanUnicityId(raw) == Trim(ReplaceAt(ReplaceAtUnicity(raw)))

\* the clean ids a nametag lookup is made for
Handles == { <<"alice">>, <<"Alice">>, <<"carol">>, <<"nobody">> }

\* the relay's nametag directory (client.queryPubkeyByNametag)
\* alice and carol are nametags of one key
queryPubkeyByNametag(id) ==
    IF id = <<"alice">> \/ id = <<"Alice">> \/ id = <<"carol">> THEN "pkA" ELSE Null


\* ------------------------------------------------------------------ state
VARIABLES
    now,              \* Date.now(), in ticks
    connected,        \* NostrService.connected: the relay subscription is live
    dayPasses,        \* PaymentTracker.dayPasses: lower-cased id -> DayPass
    pendingPayments,  \* NostrService.pendingPayments, in Map insertion order
    timers,           \* setTimeout callbacks not yet run
    promise,          \* state of the promise created by call c's waitForPayment
    resolveCalls,     \* how often that promise's resolve function was invoked
    waiters,          \* calls suspended on that promise, in await order
    calls,            \* tool invocations, in order of arrival
    outbox,           \* payment requests handed to the relay
    transportError,   \* an error escaped the onEvent callback
    lastDelivery,     \* observer: what the last delivered event met
    paidCalls,        \* observer: calls whose payer sent a sufficient transfer meanwhile
    lastRead,         \* PaymentTracker on its own: the last method called and its result
    durationMs,       \* PaymentTracker.durationMs, set by the constructor
    pubkeyCache,      \* index.ts pubkeyCache: clean id -> pubkey and timestamp
    resolves,         \* resolvePubkey on its own: the calls made, in order
    directory,        \* the relay's nametag bindings as they stand
    env,              \* process.env of the running process: variable -> value
    disk,             \* DATA_DIR: the nametags whose nametag-{name}.json exists
    proc,             \* main(): its position, its config and what it has begun
    runs,             \* how often the process was started
    relay             \* NostrService.client, the clients made and their subscriptions

vars == << now, connected, dayPasses, pendingPayments, timers, promise, resolveCalls,
           waiters, calls, outbox, transportError, lastDelivery, paidCalls,
           lastRead, durationMs, pubkeyCache, resolves, directory,
           env, disk, proc, runs, relay >>

\* the process and what outlives it
bootVars == << env, disk, proc, runs >>

\* the observer variables: written by no code, read by no code
obs == << lastDelivery, paidCalls >>

\* the state of the components that are also exercised on their own; the tool
\* handlers, the relay events and the timers leave it alone
other == << lastRead, durationMs, pubkeyCache, resolves, directory, bootVars, relay >>

\* the pubkey cache with the calls of resolvePubkey and the directory
cacheVars == << pubkeyCache, resolves, directory >>

\* the state of NostrService and of the tool handlers in flight
core == << connected, pendingPayments, timers, promise, resolveCalls, waiters,
          calls, outbox, transportError, relay >>

CallIds == 1..MaxCalls

EmptyMap == [k \in {} |-> 0]

\* ---------------------------------------------------------- PaymentTracker
\* variant: a pass that lasts one tick longer than configured
grantDayPassLate(dp, unicityId, t) ==
    (ToLowerCase(unicityId) :>
        [unicityId |-> unicityId, grantedAt |-> t, expiresAt |-> t + durationMs + 1]) @@ dp

\* variant: a grant that adds the duration to the expiry of an unexpired pass
grantDayPassCumulative(dp, unicityId, t) ==
    LET k == ToLowerCase(unicityId)
        from == IF k \in DOMAIN dp /\ t < dp[k].expiresAt THEN dp[k].expiresAt ELSE t
    IN  (k :> [unicityId |-> unicityId, grantedAt |-> t,
               expiresAt |-> from + durationMs]) @@ dp

grantDayPass(dp, unicityId, t) ==
    (ToLowerCase(unicityId) :>
        [unicityId |-> unicityId, grantedAt |-> t, expiresAt |-> t + durationMs]) @@ dp

\* variant: a lookup that finds no pass
hasValidPassNever(dp, unicityId, t) == FALSE

\* variant: a pass still valid at the instant of its expiry
hasValidPassInclusive(dp, unicityId, t) ==
    /\ ToLowerCase(unicityId) \in DOMAIN dp
    /\ t <= dp[ToLowerCase(unicityId)].expiresAt

hasValidPass(dp, unicityId, t) ==
    /\ ToLowerCase(unicityId) \in DOMAIN dp
    /\ t < dp[ToLowerCase(unicityId)].expiresAt

\* variant: a getPass that pushes the expiry of the pass it finds
getPassStoreTouch(dp, unicityId, t) ==
    LET k == ToLowerCase(unicityId)
    IN  IF k \in DOMAIN dp
        THEN [dp EXCEPT ![k].expiresAt = @ + 1]
        ELSE dp

\* variant: a getPass that leaves an expired entry in the store
getPassStoreKeep(dp, unicityId, t) == dp

\* the store after getPass: an expired entry is deleted
getPassStore(dp, unicityId, t) ==
    LET k == ToLowerCase(unicityId)
    IN  IF k \in DOMAIN dp /\ t >= dp[k].expiresAt
        THEN [x \in (DOMAIN dp) \ {k} |-> dp[x]]
        ELSE dp

\* variant: a getPass that returns whatever is stored
getPassFoundStored(dp, unicityId, t) == ToLowerCase(unicityId) \in DOMAIN dp

\* getPass found a pass to return
getPassFound(dp, unicityId, t) ==
    LET k == ToLowerCase(unicityId)
    IN  k \in DOMAIN dp /\ ~(t >= dp[k].expiresAt)

Max(a, b) == IF a >= b THEN a ELSE b

getRemainingTime(dp, unicityId, t) ==
    IF ~getPassFound(dp, unicityId, t) THEN 0
    ELSE Max(0, dp[ToLowerCase(unicityId)].expiresAt - t)

\* variant: a sweep that also takes the passes in their last tick
cleanupEarly(dp, t) ==
    [k \in { x \in DOMAIN dp : ~(t + 1 >= dp[x].expiresAt) } |-> dp[k]]

\* PaymentTracker.cleanup: every expired pass is deleted
cleanup(dp, t) ==
    [k \in { x \in DOMAIN dp : ~(t >= dp[x].expiresAt) } |-> dp[k]]

\* what is noted of a method call on the tracker: the method, its argument,
\* the time, whether a window was stored and whether it was unexpired before
\* the call, and what the call returned
ReadOf(op, unicityId, t, stored, had, found, grantedAt, expiresAt, remaining) ==
    [ op |-> op, id |-> unicityId, at |-> t, stored |-> stored, had |-> had,
      found |-> found, grantedAt |-> grantedAt, expiresAt |-> expiresAt,
      remaining |-> remaining ]

NoRead == ReadOf("none", <<>>, 0, FALSE, FALSE, FALSE, 0, 0, 0)

\* --------------------------------------------------- Map<string, PendingPayment>
MapHas(m, key) == \E i \in 1..Len(m) : m[i].requestId = key

\* Map.set: a new key is appended, an existing key keeps its position
MapSet(m, entry) ==
    IF MapHas(m, entry.requestId)
    THEN [i \in 1..Len(m) |-> IF m[i].requestId = entry.requestId THEN entry ELSE m[i]]
    ELSE Append(m, entry)

\* variant: a delete that removes nothing
MapDeleteNothing(m, key) == m

MapDelete(m, key) == SelectSeq(m, LAMBDA p : p.requestId # key)

\* ------------------------------------------------- configuration at startup
\* the values MCP_NAMETAG is given; the empty sequence is the empty string
NametagValues == { <<>>, <<"mcp">>, <<"@", "mcp">>, <<"other">> }

\* the values PAYMENT_COIN_ID is given
CoinIdValues == { "", CoinId }

\* the environments a process is started with; a variable that is not in the
\* domain is unset
Envs ==
    { n @@ c : n \in {EmptyMap} \cup { ("MCP_NAMETAG" :> v) : v \in NametagValues },
               c \in {EmptyMap} \cup { ("PAYMENT_COIN_ID" :> v) : v \in CoinIdValues } }

\* variant: only an unset MCP_NAMETAG is refused
NoNametagUnsetOnly(e) == "MCP_NAMETAG" \notin DOMAIN e

\* !nametag: MCP_NAMETAG is unset or empty
NoNametag(e) == "MCP_NAMETAG" \notin DOMAIN e \/ e["MCP_NAMETAG"] = <<>>

\* !coinId: PAYMENT_COIN_ID is unset or empty
NoCoinId(e) == "PAYMENT_COIN_ID" \notin DOMAIN e \/ e["PAYMENT_COIN_ID"] = ""

\* nametag.replace("@unicity", "").replace("@", "").trim()
cleanNametag(nametag) == Trim(ReplaceAt(ReplaceAtUnicity(nametag)))

\* no Config: loadConfig threw
NoConfig == [ loaded |-> FALSE, nametag |-> <<>>, coinId |-> "" ]

\* loadConfig(): throws when a required variable is missing, else the Config
loadConfig(e) ==
    IF NoNametag(e) THEN NoConfig
    ELSE IF NoCoinId(e) THEN NoConfig
    ELSE [ loaded |-> TRUE, nametag |-> cleanNametag(e["MCP_NAMETAG"]),
           coinId |-> e["PAYMENT_COIN_ID"] ]

\* main() and IdentityService: where main is, the Config it loaded, the steps
\* it has begun in order, the mint attempt, the commitments submitted in this
\* run and where the nametag token came from
ProcOf(pc, config, steps, attempt, commits, nametagToken) ==
    [ pc |-> pc, config |-> config, steps |-> steps, attempt |-> attempt,
      commits |-> commits, nametagToken |-> nametagToken ]

\* no process is running
NotStarted == ProcOf("off", NoConfig, <<>>, 0, 0, "none")

\* the environment of a server that was started successfully
ServingEnv == ("MCP_NAMETAG" :> <<"mcp">>) @@ ("PAYMENT_COIN_ID" :> CoinId)

\* main() has run to its end: the server listens
Serving ==
    ProcOf("serving", loadConfig(ServingEnv),
           <<"loadConfig", "identity", "connect", "serve">>, 1, 1, "minted")

\* ------------------------------------------------------ the relay clients
\* client: this.client, 0 for null; created: the NostrClient objects made;
\* open: the clients whose relay connection is established; subs: the
\* subscriptions registered on each client; awaiting: the clients whose
\* connect() is awaited; calls: the connect() calls made; handled: how many
\* handleIncomingTransfer calls the last inbound transfer started
RelayOf(client, created, open, subs, awaiting, connectCalls, handled) ==
    [ client |-> client, created |-> created, open |-> open, subs |-> subs,
      awaiting |-> awaiting, calls |-> connectCalls, handled |-> handled ]

\* the fields of a NostrService as the constructor leaves them
NoRelay == RelayOf(0, 0, {}, <<>>, {}, 0, 0)

\* the fields after one connect() call has run to its end
ConnectedRelay == RelayOf(1, 1, {1}, <<1>>, {}, 1, 0)

\* ------------------------------------------------------------------- Init
\* the state of the services as their constructors leave it
ServicesInit(durationHours, isConnected) ==
    /\ now = 0
    /\ connected = isConnected
    /\ dayPasses = EmptyMap
    /\ pendingPayments = <<>>
    /\ timers = {}
    /\ promise = [c \in CallIds |-> "none"]
    /\ resolveCalls = [c \in CallIds |-> 0]
    /\ waiters = [c \in CallIds |-> <<>>]
    /\ calls = <<>>
    /\ outbox = {}
    /\ transportError = FALSE
    /\ lastDelivery = "none"
    /\ paidCalls = {}
    /\ lastRead = NoRead
    /\ durationMs = durationHours
    /\ pubkeyCache = EmptyMap
    /\ resolves = <<>>
    /\ directory = [id \in Handles |-> queryPubkeyByNametag(id)]
    /\ relay = IF isConnected THEN ConnectedRelay ELSE NoRelay

\* the server after main() has connected it and started the HTTP server
InitOf(durationHours) ==
    /\ ServicesInit(durationHours, TRUE)
    /\ env = ServingEnv
    /\ disk = { <<"mcp">> }
    /\ proc = Serving
    /\ runs = 1

\* the server as main() sets it up, the duration from the configuration
Init == InitOf(DurationMs)


\* ------------------------------------------------------------- the games
\* the game arguments of get_game and confirm_payment, as token sequences;
\* the empty sequence is the empty string, or no argument
GameArgs ==
    { <<"unirun">>, <<"Unirun">>, <<"boxy", " ", "run">>, <<"chess">>,
      <<"constructor">>, <<>> }

\* the game the calls name where the game is not what is looked at
DefaultGame == <<"unirun">>

\* the keys of GAMES
GAMES == { <<"unicity", "-", "quake">>, <<"boxy", "-", "run">>, <<"unirun">> }

\* the properties GAMES, an object literal, inherits from Object.prototype
\* and whose names toLowerCase leaves as they are
ObjectPrototype == { <<"constructor">>, <<"__proto__">> }

\* game.toLowerCase().replace(/\s+/g, "-")
NormalizeTok(t) ==
    IF t = "Unirun" THEN "unirun" ELSE IF t = " " THEN "-" ELSE t

normalizeGame(game) == [i \in 1..Len(game) |-> NormalizeTok(game[i])]

\* GAMES[normalizedId] is truthy: an own entry, or an inherited property
GameData(normalizedId) == normalizedId \in GAMES \/ normalizedId \in ObjectPrototype

\* ------------------------------------------------------------ tool calls
NewCallWith(tool, raw, game) ==
    [ tool      |-> tool,
      raw       |-> raw,
      game      |-> game,
      remainingTime |-> "none",    \* check_access: the remainingTime it reports
      unicityId |-> cleanUnicityId(raw),
      pubkey    |-> Null,
      pc        |-> "resolving",   \* resolving, sending, waiting, done
      result    |-> "none",
      requestId |-> 0,             \* request id generated by this call
      awaits    |-> 0 ]            \* call whose promise this call is suspended on

NewCall(tool, raw) == NewCallWith(tool, raw, DefaultGame)

Done(call, result) == [call EXCEPT !.pc = "done", !.result = result]

InProgress(call) == call.pc # "done"

\* Math.random().toString(36).substring(2, 10): a value that no other request
\* carries; the number of the generating call serves as that value
NewRequestId(c) == c

\* variant: a handler that goes on without a pubkey
NotFoundNever(pubkey) == FALSE

\* if (!pubkey): the handle resolved to nothing
NotFound(pubkey) == pubkey = Null

\* a tool handler is invoked: cleanUnicityId, then await resolvePubkey
StartCallWith(tool, raw, game) ==
    /\ Len(calls) < MaxCalls
    /\ calls' = Append(calls, NewCallWith(tool, raw, game))
    /\ UNCHANGED << now, connected, dayPasses, pendingPayments, timers, promise,
                    resolveCalls, waiters, outbox,
                    transportError, obs, other >>

\* a tool handler is invoked for a game of the list
StartCall(tool, raw) == StartCallWith(tool, raw, DefaultGame)

\* index of the first pending payment of the account, 0 when there is none
getPendingPaymentForUser(m, unicityId) ==
    LET hits == { i \in 1..Len(m) : ToLowerCase(m[i].unicityId) = ToLowerCase(unicityId) }
    IN  IF hits = {} THEN 0 ELSE CHOOSE i \in hits : \A j \in hits : i <= j

\* the caller is appended to the waiters of the request's promise
waitForExistingPayment(ws, owner, c) == [ws EXCEPT ![owner] = Append(@, c)]

\* formatRemainingTime: "No active pass" for 0 ms, else the hours and minutes
formatRemainingTime(dp, unicityId, t) ==
    IF getRemainingTime(dp, unicityId, t) = 0 THEN "No active pass" ELSE "remaining"

\* check_access after resolvePubkey returned; hasValidPass reads the clock,
\* formatRemainingTime reads it again, d ticks later
CheckAccessWith(c, d) ==
    /\ c \in 1..Len(calls)
    /\ calls[c].tool = "check_access"
    /\ calls[c].pc = "resolving"
    /\ now + d <= MaxTime
    /\ LET call == calls[c]
           pubkey == queryPubkeyByNametag(call.unicityId)
           hasPass == /\ connected
                      /\ ~NotFound(pubkey)
                      /\ hasValidPass(dayPasses, call.unicityId, now)
       IN  /\ d > 0 => hasPass
           /\ calls' = [calls EXCEPT ![c] =
                 IF ~connected THEN Done(call, "threw")
                 ELSE IF NotFound(pubkey) THEN Done(call, "resolution_failed")
                 ELSE IF hasValidPass(dayPasses, call.unicityId, now)
                      THEN [Done(call, "has_access") EXCEPT
                               !.pubkey = pubkey,
                               !.remainingTime =
                                   formatRemainingTime(dayPasses, call.unicityId, now + d)]
                      ELSE [Done(call, "no_access") EXCEPT !.pubkey = pubkey]]
           /\ dayPasses' = IF hasPass
                           THEN getPassStore(dayPasses, call.unicityId, now + d)
                           ELSE dayPasses
    /\ now' = now + d
    /\ UNCHANGED << connected, pendingPayments, timers, promise,
                    resolveCalls, waiters, outbox,
                    transportError, obs, other >>

\* check_access with both reads of the clock in one tick
CheckAccess(c) == CheckAccessWith(c, 0)

\* get_game after resolvePubkey returned, up to the await in sendPaymentRequest
GetGame(c) ==
    /\ c \in 1..Len(calls)
    /\ calls[c].tool = "get_game"
    /\ calls[c].pc = "resolving"
    /\ LET call == calls[c]
           pubkey == queryPubkeyByNametag(call.unicityId)
       IN  calls' = [calls EXCEPT ![c] =
                IF ~connected THEN Done(call, "threw")
                ELSE IF NotFound(pubkey) THEN Done(call, "resolution_failed")
                ELSE IF ~GameData(normalizeGame(call.game))
                     THEN Done(call, "game_not_found")
                ELSE IF hasValidPass(dayPasses, call.unicityId, now)
                     THEN [Done(call, "access_granted") EXCEPT !.pubkey = pubkey]
                     ELSE [call EXCEPT !.pubkey = pubkey, !.pc = "sending",
                                       !.requestId = NewRequestId(c)]]
    /\ UNCHANGED << now, connected, dayPasses, pendingPayments, timers, promise,
                    resolveCalls, waiters, outbox,
                    transportError, obs, other >>


\* the payment request as handed to client.sendPaymentRequest
OutboundRequest(c, call) ==
    [ to |-> call.pubkey, unicityId |-> call.unicityId, amount |-> ConfigAmount,
      coinId |-> CoinId, requestId |-> call.requestId, by |-> c ]

\* variant: the send is attempted again after an error
SendFailedRetry(call) == [call EXCEPT !.result = "retrying"]

\* await client.sendPaymentRequest rejects: sendPaymentRequest has no catch
\* and no loop, and neither has the handler, so the error leaves both
SendFailed(call) == Done(call, "threw")

\* get_game when client.sendPaymentRequest settled: the returned waitForPayment
\* is dropped, nothing is registered
GetGameSent(c, ok) ==
    /\ c \in 1..Len(calls)
    /\ calls[c].tool = "get_game"
    /\ calls[c].pc = "sending"
    /\ ok => connected
    /\ calls' = [calls EXCEPT ![c] =
                    IF ok THEN Done(@, "payment_required") ELSE SendFailed(@)]
    /\ outbox' = IF ok THEN outbox \cup {OutboundRequest(c, calls[c])} ELSE outbox
    /\ UNCHANGED << now, connected, dayPasses, pendingPayments, timers, promise,
                    resolveCalls, waiters,
                    transportError, obs, other >>

\* confirm_payment after resolvePubkey returned, up to its next await;
\* requestId is the value sendPaymentRequest draws when it is reached
ConfirmPaymentWith(c, requestId) ==
    /\ c \in 1..Len(calls)
    /\ calls[c].tool = "confirm_payment"
    /\ calls[c].pc = "resolving"
    /\ LET call == calls[c]
           pubkey == queryPubkeyByNametag(call.unicityId)
           unknown == call.game # <<>> /\ ~GameData(normalizeGame(call.game))
           early == ~connected \/ NotFound(pubkey) \/ unknown
                       \/ hasValidPass(dayPasses, call.unicityId, now)
           existing == getPendingPaymentForUser(pendingPayments, call.unicityId)
       IN  /\ calls' = [calls EXCEPT ![c] =
                IF ~connected THEN Done(call, "threw")
                ELSE IF NotFound(pubkey) THEN Done(call, "resolution_failed")
                ELSE IF unknown THEN Done(call, "game_not_found")
                ELSE IF hasValidPass(dayPasses, call.unicityId, now)
                     THEN [Done(call, "already_active") EXCEPT !.pubkey = pubkey]
                ELSE IF existing # 0
                     THEN [call EXCEPT !.pubkey = pubkey, !.pc = "waiting",
                                       !.awaits = pendingPayments[existing].resolve]
                     ELSE [call EXCEPT !.pubkey = pubkey, !.pc = "sending",
                                       !.requestId = requestId]]
           /\ waiters' = IF ~early /\ existing # 0
                         THEN waitForExistingPayment(waiters,
                                  pendingPayments[existing].resolve, c)
                         ELSE waiters
    /\ UNCHANGED << now, connected, dayPasses, pendingPayments, timers, promise,
                    resolveCalls, outbox, transportError, obs, other >>

\* confirm_payment with a request id that no other request carries
ConfirmPayment(c) == ConfirmPaymentWith(c, NewRequestId(c))

\* the PendingPayment that waitForPayment stores
NewPending(c, call) ==
    [ requestId |-> call.requestId, unicityId |-> call.unicityId,
      userPubkey |-> call.pubkey, amount |-> ConfigAmount, coinId |-> CoinId,
      createdAt |-> now, resolve |-> c ]

\* the closure handed to setTimeout
NewTimer(c, call) ==
    [ requestId |-> call.requestId, resolve |-> c,
      deadline |-> now + PaymentTimeoutSeconds ]

\* confirm_payment when client.sendPaymentRequest settled: waitForPayment()
\* registers the pending payment, arms the timer and the handler awaits
ConfirmPaymentSent(c, ok) ==
    /\ c \in 1..Len(calls)
    /\ calls[c].tool = "confirm_payment"
    /\ calls[c].pc = "sending"
    /\ ok => connected
    /\ ok => now + PaymentTimeoutSeconds <= MaxTime
    /\ IF ok
       THEN /\ outbox' = outbox \cup {OutboundRequest(c, calls[c])}
            /\ pendingPayments' = MapSet(pendingPayments, NewPending(c, calls[c]))
            /\ timers' = timers \cup {NewTimer(c, calls[c])}
            /\ promise' = [promise EXCEPT ![c] = "pending"]
            /\ waiters' = [waiters EXCEPT ![c] = <<c>>]
            /\ calls' = [calls EXCEPT ![c].pc = "waiting", ![c].awaits = c]
       ELSE /\ calls' = [calls EXCEPT ![c] = SendFailed(@)]
            /\ UNCHANGED << outbox, pendingPayments, timers, promise, waiters >>
    /\ UNCHANGED << now, connected, dayPasses, resolveCalls,
                    transportError, obs, other >>

\* variant: callers that grant the pass whatever the promise resolved to
RECURSIVE RunWaitersGrantAlways(_, _, _, _, _)
RunWaitersGrantAlways(ws, value, cs, dp, t) ==
    IF ws = <<>> THEN [calls |-> cs, dayPasses |-> dp]
    ELSE LET c == Head(ws)
             dp2 == grantDayPass(dp, cs[c].unicityId, t)
             cs2 == [cs EXCEPT ![c] =
                        IF value
                        THEN Done(@, "payment_confirmed")
                        ELSE Done(@, "payment_timeout")]
         IN  RunWaitersGrantAlways(Tail(ws), value, cs2, dp2, t)

\* confirm_payment resumes with paymentReceived = value: the suspended calls
\* run in await order, each granting the pass when the value is true
RECURSIVE RunWaiters(_, _, _, _, _)
RunWaiters(ws, value, cs, dp, t) ==
    IF ws = <<>> THEN [calls |-> cs, dayPasses |-> dp]
    ELSE LET c == Head(ws)
             dp2 == IF value THEN grantDayPass(dp, cs[c].unicityId, t) ELSE dp
             cs2 == [cs EXCEPT ![c] =
                        IF value
                        THEN Done(@, "payment_confirmed")
                        ELSE Done(@, "payment_timeout")]
         IN  RunWaiters(Tail(ws), value, cs2, dp2, t)

\* resolve(value) on the promise of call o; only the first call settles it
SettledPromise(o, value) ==
    IF promise[o] = "pending"
    THEN [promise EXCEPT ![o] = IF value THEN "true" ELSE "false"]
    ELSE promise

AfterResolve(o, value, cs) ==
    IF promise[o] = "pending"
    THEN RunWaiters(waiters[o], value, cs, dayPasses, now)
    ELSE [calls |-> cs, dayPasses |-> dayPasses]


\* ------------------------------------------------------- inbound transfers
\* TokenTransferProtocol.isTokenTransfer(event)
isTokenTransfer(e) == e.kind \in {"transfer", "malformed"}

\* getSender / getAmount throw on an event they cannot parse
ParseThrows(e) == e.kind = "malformed"

\* variant: the loop compares the sender only
IsMatchAnyAmount(p, e) == p.userPubkey = e.sender

\* the test of the matching loop
IsMatch(p, e) ==
    /\ p.userPubkey = e.sender
    /\ e.hasAmount
    /\ e.amount >= p.amount

\* variant: the loop stops at no entry
FirstMatchNone(m, e) == 0

\* variant: the loop keeps the last entry it matches
FirstMatchLast(m, e) ==
    LET hits == { i \in 1..Len(m) : IsMatch(m[i], e) }
    IN  IF hits = {} THEN 0 ELSE CHOOSE i \in hits : \A j \in hits : i >= j

\* index of the first pending payment the loop matches, 0 when there is none
FirstMatch(m, e) ==
    LET hits == { i \in 1..Len(m) : IsMatch(m[i], e) }
    IN  IF hits = {} THEN 0 ELSE CHOOSE i \in hits : \A j \in hits : i <= j

\* variant: handleIncomingTransfer without its try/catch
ErrorEscapesParse(e) == e.kind = "malformed"

\* an error leaves handleIncomingTransfer: never, its body is a try/catch
\* and onEvent adds a .catch
ErrorEscapes(e) == FALSE

\* a transfer that pays the configured amount
Sufficient(e) == e.kind = "transfer" /\ e.hasAmount /\ e.amount >= ConfigAmount

\* the matching loop finds a pending payment for the event
Matched(e) ==
    /\ isTokenTransfer(e)
    /\ ~ParseThrows(e)
    /\ FirstMatch(pendingPayments, e) # 0

\* handleIncomingTransfer(event), run by the onEvent callback
handleIncomingTransfer(e) ==
    /\ connected
    /\ transportError' = (transportError \/ ErrorEscapes(e))
    /\ LET i == IF Matched(e) THEN FirstMatch(pendingPayments, e) ELSE 0
       IN  IF i # 0
           THEN LET o == pendingPayments[i].resolve
                    after == AfterResolve(o, TRUE, calls)
                IN  /\ promise' = SettledPromise(o, TRUE)
                    /\ resolveCalls' = [resolveCalls EXCEPT ![o] = @ + 1]
                    /\ pendingPayments' = MapDelete(pendingPayments,
                                                    pendingPayments[i].requestId)
                    /\ calls' = after.calls
                    /\ dayPasses' = after.dayPasses
           ELSE UNCHANGED << promise, resolveCalls, pendingPayments, dayPasses, calls >>
    /\ UNCHANGED << now, connected, timers, waiters, outbox >>

\* the relay delivers an event to the onEvent callback of the subscription
OnEvent(e) ==
    /\ handleIncomingTransfer(e)
    /\ UNCHANGED << obs, other >>

\* the payer of call c: the pubkey its unicity id resolves to
PayerOf(c) == queryPubkeyByNametag(calls[c].unicityId)

\* the calls an observer marks as paid when e arrives: confirm_payment calls in
\* progress, and a get_game that answered payment_required with no tool call
\* invoked since
PaidBy(e) ==
    { c \in 1..Len(calls) :
        /\ Sufficient(e)
        /\ e.sender = PayerOf(c)
        /\ \/ calls[c].tool = "confirm_payment" /\ InProgress(calls[c])
           \/ /\ calls[c].tool = "get_game"
              /\ calls[c].result = "payment_required"
              /\ c = Len(calls) }

\* the same delivery, the observer marking the calls it pays
OnEventObserved(e) ==
    /\ handleIncomingTransfer(e)
    /\ paidCalls' = paidCalls \cup PaidBy(e)
    /\ UNCHANGED << lastDelivery, other >>

\* the pending payments that e pays: a transfer of their payer with an amount
\* of at least theirs
PaidPending(e) ==
    { i \in 1..Len(pendingPayments) :
        /\ e.kind = "transfer"
        /\ e.sender = pendingPayments[i].userPubkey
        /\ e.hasAmount
        /\ ~(e.amount < pendingPayments[i].amount) }

\* what the observer notes of a delivery: the event pays a pending payment,
\* or it pays none while some are pending, or nothing is pending
Delivery(e) ==
    IF PaidPending(e) # {} THEN "paying"
    ELSE IF pendingPayments # <<>> THEN "foreign" ELSE "idle"

\* the same delivery, the observer recording what the event met
OnEventRecorded(e) ==
    /\ handleIncomingTransfer(e)
    /\ lastDelivery' = Delivery(e)
    /\ UNCHANGED << paidCalls, other >>

\* ---------------------------------------------------------------- timers
\* variant: the timeout callback without its has() guard
StillPendingAlways(m, requestId) == TRUE

\* variant: a timeout callback that never finds its payment
StillPendingNever(m, requestId) == FALSE

\* the guard of the timeout callback
StillPending(m, requestId) == MapHas(m, requestId)

\* the setTimeout callback of waitForPayment runs
TimeoutFire(t) ==
    /\ t \in timers
    /\ now >= t.deadline
    /\ timers' = timers \ {t}
    /\ IF StillPending(pendingPayments, t.requestId)
       THEN LET after == AfterResolve(t.resolve, FALSE, calls)
            IN  /\ pendingPayments' = MapDelete(pendingPayments, t.requestId)
                /\ promise' = SettledPromise(t.resolve, FALSE)
                /\ resolveCalls' = [resolveCalls EXCEPT ![t.resolve] = @ + 1]
                /\ calls' = after.calls
                /\ dayPasses' = after.dayPasses
       ELSE UNCHANGED << pendingPayments, promise, resolveCalls, calls, dayPasses >>
    /\ UNCHANGED << now, connected, waiters, outbox,
                    transportError, obs, other >>

\* the clock advances
Tick ==
    /\ now < MaxTime
    /\ now' = now + 1
    /\ UNCHANGED << connected, dayPasses, pendingPayments, timers, promise,
                    resolveCalls, waiters, calls, outbox,
                    transportError, obs, other >>

\* client.disconnect() closes the connection of that client and with it the
\* subscriptions registered on it
ClientDisconnect(r) ==
    IF r.client = 0 THEN r
    ELSE [r EXCEPT !.open = @ \ {r.client}, !.subs[r.client] = 0]

\* NostrService.disconnect: the relay connection is closed, timers stay armed
Disconnect ==
    /\ connected
    /\ connected' = FALSE
    /\ relay' = ClientDisconnect(relay)
    /\ UNCHANGED << now, dayPasses, pendingPayments, timers, promise,
                    resolveCalls, waiters, calls, outbox,
                    transportError, obs, lastRead, durationMs, cacheVars, bootVars >>

\* ------------------------------------------------------------------- Next
Next ==
    \/ \E tool \in Tools, raw \in RawIds : StartCall(tool, raw)
    \/ \E c \in CallIds : CheckAccess(c)
    \/ \E c \in CallIds : GetGame(c)
    \/ \E c \in CallIds, ok \in BOOLEAN : GetGameSent(c, ok)
    \/ \E c \in CallIds : ConfirmPayment(c)
    \/ \E c \in CallIds, ok \in BOOLEAN : ConfirmPaymentSent(c, ok)
    \/ \E e \in Events : OnEvent(e)
    \/ \E t \in timers : TimeoutFire(t)
    \/ Tick

Spec == Init /\ [][Next]_vars

\* the payment flow under observation: the tools that send payment requests,
\* for the ids that resolve
ObsTools == {"get_game", "confirm_payment"}

ObsIds == { <<"alice">>, <<"@", "Alice">> }

NextObs ==
    \/ \E tool \in ObsTools, raw \in ObsIds : StartCall(tool, raw)
    \/ \E c \in CallIds : GetGame(c)
    \/ \E c \in CallIds, ok \in BOOLEAN : GetGameSent(c, ok)
    \/ \E c \in CallIds : ConfirmPayment(c)
    \/ \E c \in CallIds, ok \in BOOLEAN : ConfirmPaymentSent(c, ok)
    \/ \E e \in Events : OnEventObserved(e)
    \/ \E t \in timers : TimeoutFire(t)
    \/ Tick

ObsSpec == Init /\ [][NextObs]_vars

\* the pending payments and the events delivered to them, every delivery
\* recorded: confirm_payment is the only tool that registers a pending payment
NextEvent ==
    \/ \E raw \in ObsIds : StartCall("confirm_payment", raw)
    \/ \E c \in CallIds : ConfirmPayment(c)
    \/ \E c \in CallIds, ok \in BOOLEAN : ConfirmPaymentSent(c, ok)
    \/ \E e \in Events : OnEventRecorded(e)
    \/ \E t \in timers : TimeoutFire(t)
    \/ Tick

EventSpec == Init /\ [][NextEvent]_vars

\* every tool and every delivery recorded, for the ids that resolve
NextWindow ==
    \/ \E tool \in Tools, raw \in ObsIds : StartCall(tool, raw)
    \/ \E c \in CallIds : CheckAccess(c)
    \/ \E c \in CallIds : GetGame(c)
    \/ \E c \in CallIds, ok \in BOOLEAN : GetGameSent(c, ok)
    \/ \E c \in CallIds : ConfirmPayment(c)
    \/ \E c \in CallIds, ok \in BOOLEAN : ConfirmPaymentSent(c, ok)
    \/ \E e \in Events : OnEventRecorded(e)
    \/ \E t \in timers : TimeoutFire(t)
    \/ Tick

WindowSpec == Init /\ [][NextWindow]_vars

\* two accounts of one payer, and transfers that carry an asset and a
\* reply-to reference
MatchIds == { <<"alice">>, <<"carol">> }

NextMatch ==
    \/ \E raw \in MatchIds : StartCall("confirm_payment", raw)
    \/ \E c \in CallIds : ConfirmPayment(c)
    \/ \E c \in CallIds, ok \in BOOLEAN : ConfirmPaymentSent(c, ok)
    \/ \E e \in TaggedEvents : OnEvent(e)
    \/ \E t \in timers : TimeoutFire(t)
    \/ Tick

MatchSpec == Init /\ [][NextMatch]_vars

\* the values Math.random().toString(36).substring(2, 10) can yield
RequestIds == 1..MaxCalls

\* confirm_payment with request ids as Math.random yields them: any value of
\* the range, whatever was drawn before
NextId ==
    \/ \E raw \in MatchIds : StartCall("confirm_payment", raw)
    \/ \E c \in CallIds, requestId \in RequestIds : ConfirmPaymentWith(c, requestId)
    \/ \E c \in CallIds, ok \in BOOLEAN : ConfirmPaymentSent(c, ok)
    \/ \E e \in Events : OnEvent(e)
    \/ \E t \in timers : TimeoutFire(t)
    \/ Tick

IdSpec == Init /\ [][NextId]_vars

\* check_access whose two reads of the clock may fall in different ticks
NextAccess ==
    \/ \E tool \in {"check_access", "confirm_payment"}, raw \in ObsIds :
           StartCall(tool, raw)
    \/ \E c \in CallIds, d \in {0, 1} : CheckAccessWith(c, d)
    \/ \E c \in CallIds : ConfirmPayment(c)
    \/ \E c \in CallIds, ok \in BOOLEAN : ConfirmPaymentSent(c, ok)
    \/ \E e \in Events : OnEvent(e)
    \/ \E t \in timers : TimeoutFire(t)
    \/ Tick

AccessSpec == Init /\ [][NextAccess]_vars

\* get_game and confirm_payment called with any game argument
NextGame ==
    \/ \E tool \in {"get_game", "confirm_payment"}, game \in GameArgs :
           StartCallWith(tool, <<"alice">>, game)
    \/ \E c \in CallIds : GetGame(c)
    \/ \E c \in CallIds, ok \in BOOLEAN : GetGameSent(c, ok)
    \/ \E c \in CallIds : ConfirmPayment(c)
    \/ \E c \in CallIds, ok \in BOOLEAN : ConfirmPaymentSent(c, ok)
    \/ \E e \in Events : OnEvent(e)
    \/ \E t \in timers : TimeoutFire(t)
    \/ Tick

GameSpec == Init /\ [][NextGame]_vars

\* the callers of waitForPayment with disconnect, under the scheduling of the
\* event loop: the clock advances and a due timer callback is run
TimerOf(c) == \E t \in timers : t.resolve = c /\ TimeoutFire(t)

NextLive ==
    \/ \E raw \in ObsIds : StartCall("confirm_payment", raw)
    \/ \E c \in CallIds : ConfirmPayment(c)
    \/ \E c \in CallIds, ok \in BOOLEAN : ConfirmPaymentSent(c, ok)
    \/ \E e \in Events : OnEvent(e)
    \/ \E c \in CallIds : TimerOf(c)
    \/ Tick
    \/ Disconnect

LiveSpec ==
    /\ Init
    /\ [][NextLive]_vars
    /\ WF_vars(Tick)
    /\ \A c \in CallIds : WF_vars(TimerOf(c))

\* ------------------------------------------- PaymentTracker on its own
\* the handles the tracker is called with: two spellings of one, and another
TrackerIds == { <<"alice">>, <<"Alice">>, <<"bob">> }

\* a window is stored under the key of the handle
Stored(dp, unicityId) == ToLowerCase(unicityId) \in DOMAIN dp

\* a window is stored under the key of the handle and t is before its expiry
Unexpired(dp, unicityId, t) ==
    Stored(dp, unicityId) /\ t < dp[ToLowerCase(unicityId)].expiresAt

\* paymentTracker.grantDayPass(unicityId)
TrackerGrant(unicityId) ==
    /\ dayPasses' = grantDayPass(dayPasses, unicityId, now)
    /\ lastRead' = ReadOf("grantDayPass", unicityId, now,
                          Stored(dayPasses, unicityId),
                          Unexpired(dayPasses, unicityId, now), TRUE,
                          dayPasses'[ToLowerCase(unicityId)].grantedAt,
                          dayPasses'[ToLowerCase(unicityId)].expiresAt, 0)
    /\ UNCHANGED << now, core, obs, bootVars, durationMs, cacheVars >>

\* paymentTracker.hasValidPass(unicityId)
TrackerHasValidPass(unicityId) ==
    /\ lastRead' = ReadOf("hasValidPass", unicityId, now,
                          Stored(dayPasses, unicityId),
                          Unexpired(dayPasses, unicityId, now),
                          hasValidPass(dayPasses, unicityId, now), 0, 0, 0)
    /\ UNCHANGED << now, dayPasses, core, obs, bootVars, durationMs, cacheVars >>

\* paymentTracker.getPass(unicityId)
TrackerGetPass(unicityId) ==
    LET found == getPassFound(dayPasses, unicityId, now)
        k == ToLowerCase(unicityId)
    IN  /\ dayPasses' = getPassStore(dayPasses, unicityId, now)
        /\ lastRead' = ReadOf("getPass", unicityId, now,
                              Stored(dayPasses, unicityId),
                              Unexpired(dayPasses, unicityId, now), found,
                              IF found THEN dayPasses[k].grantedAt ELSE 0,
                              IF found THEN dayPasses[k].expiresAt ELSE 0, 0)
        /\ UNCHANGED << now, core, obs, bootVars, durationMs, cacheVars >>

\* paymentTracker.getRemainingTime(unicityId), which calls getPass
TrackerGetRemainingTime(unicityId) ==
    /\ dayPasses' = getPassStore(dayPasses, unicityId, now)
    /\ lastRead' = ReadOf("getRemainingTime", unicityId, now,
                          Stored(dayPasses, unicityId),
                          Unexpired(dayPasses, unicityId, now),
                          getPassFound(dayPasses, unicityId, now), 0, 0,
                          getRemainingTime(dayPasses, unicityId, now))
    /\ UNCHANGED << now, core, obs, bootVars, durationMs, cacheVars >>

\* paymentTracker.cleanup()
TrackerCleanup ==
    /\ dayPasses' = cleanup(dayPasses, now)
    /\ lastRead' = ReadOf("cleanup", <<>>, now,
                          dayPasses # EmptyMap,
                          \E k \in DOMAIN dayPasses : now < dayPasses[k].expiresAt,
                          FALSE, 0, 0,
                          Cardinality(DOMAIN dayPasses) - Cardinality(DOMAIN dayPasses'))
    /\ UNCHANGED << now, core, obs, bootVars, durationMs, cacheVars >>

NextTracker ==
    \/ \E unicityId \in TrackerIds : TrackerGrant(unicityId)
    \/ \E unicityId \in TrackerIds : TrackerHasValidPass(unicityId)
    \/ \E unicityId \in TrackerIds : TrackerGetPass(unicityId)
    \/ \E unicityId \in TrackerIds : TrackerGetRemainingTime(unicityId)
    \/ TrackerCleanup
    \/ Tick

\* the durations the tracker is constructed with
Durations == {1, DurationMs}

\* new PaymentTracker(durationHours)
TrackerInit == \E durationHours \in Durations : InitOf(durationHours)

TrackerSpec == TrackerInit /\ [][NextTracker]_vars

\* the values DAY_PASS_HOURS is given, as sequences of characters
DayPassHoursValues == { <<"2">>, <<"1">>, <<"0">>, <<"-", "1">>, <<"1", "h">> }

\* the characters parseInt reads as decimal digits
Digits == { "0", "1", "2" }

DigitValue(ch) == IF ch = "0" THEN 0 ELSE IF ch = "1" THEN 1 ELSE 2

\* parseInt of an unsigned string: the value of its leading digits
RECURSIVE ParseDigits(_, _)
ParseDigits(str, acc) ==
    IF str = <<>> \/ Head(str) \notin Digits THEN acc
    ELSE ParseDigits(Tail(str), 10 * acc + DigitValue(Head(str)))

\* parseInt(str, 10) for a string that starts with a sign or a digit
parseInt(str) ==
    IF Head(str) = "-" THEN 0 - ParseDigits(Tail(str), 0) ELSE ParseDigits(str, 0)

\* the server with the PaymentTracker that main() constructs from
\* config.dayPassDurationHours
DurationInit == \E str \in DayPassHoursValues : InitOf(parseInt(str))

DurationSpec == DurationInit /\ [][NextTracker]_vars

\* ---------------------------------------------- resolvePubkey on its own
\* the ids resolvePubkey is called with
ResolveIds == { <<"alice">>, <<"Alice">>, <<"@", "alice">>, <<"nobody">> }

\* the pubkeys a handle can be bound to
Bindings == { Null, "pkA", "pkB" }

\* variant: a cache entry is used whatever its age
IsFreshAlways(cache, cleanId, t) == cleanId \in DOMAIN cache

\* cached && Date.now() - cached.timestamp < PUBKEY_CACHE_TTL_MS
IsFresh(cache, cleanId, t) ==
    /\ cleanId \in DOMAIN cache
    /\ t - cache[cleanId].timestamp < PUBKEY_CACHE_TTL_MS

\* pubkeyCache.set(cleanId, { pubkey, timestamp: Date.now() })
CacheSet(cache, cleanId, pubkey, t) ==
    (cleanId :> [pubkey |-> pubkey, timestamp |-> t]) @@ cache

\* what the cache held for the id when resolvePubkey looked
CacheState(cache, cleanId, t) ==
    IF cleanId \notin DOMAIN cache THEN "none"
    ELSE IF t - cache[cleanId].timestamp < PUBKEY_CACHE_TTL_MS THEN "fresh" ELSE "stale"

\* resolvePubkey(unicityId) up to its return from the cache or to the await
\* of the directory lookup
ResolveStart(unicityId) ==
    /\ Len(resolves) < MaxResolves
    /\ LET cleanId == cleanUnicityId(unicityId)
           hit == IsFresh(pubkeyCache, cleanId, now)
       IN  resolves' = Append(resolves,
              [ id |-> unicityId, cleanId |-> cleanId,
                saw |-> CacheState(pubkeyCache, cleanId, now),
                pc |-> IF hit THEN "done" ELSE "querying",
                result |-> IF hit THEN pubkeyCache[cleanId].pubkey ELSE Null,
                lookups |-> IF hit THEN 0 ELSE 1,
                threw |-> FALSE ])
    /\ UNCHANGED << now, dayPasses, core, obs, bootVars, lastRead, durationMs, pubkeyCache,
                    directory >>

\* variant: a not-found answer is stored like a pubkey
FoundAlways(pubkey) == TRUE

\* if (pubkey)
Found(pubkey) == pubkey # Null

\* variant: the lookup is attempted again after an error
LookupFailedRetry(r) == [r EXCEPT !.lookups = 2]

\* the awaited lookup rejects: no catch, the error leaves resolvePubkey
LookupFailed(r) == [r EXCEPT !.pc = "done", !.threw = TRUE]

\* the directory lookup of call i settles: resolvePubkey stores the pubkey it
\* got and returns it, or the lookup failed and the error leaves resolvePubkey
ResolveReturn(i, ok) ==
    /\ i \in 1..Len(resolves)
    /\ resolves[i].pc = "querying"
    /\ LET cleanId == resolves[i].cleanId
           pubkey == directory[cleanId]
       IN  IF ok
           THEN /\ resolves' = [resolves EXCEPT ![i].pc = "done", ![i].result = pubkey]
                /\ pubkeyCache' = IF Found(pubkey)
                                  THEN CacheSet(pubkeyCache, cleanId, pubkey, now)
                                  ELSE pubkeyCache
           ELSE /\ resolves' = [resolves EXCEPT ![i] = LookupFailed(resolves[i])]
                /\ UNCHANGED pubkeyCache
    /\ UNCHANGED << now, dayPasses, core, obs, bootVars, lastRead, durationMs, directory >>

\* a nametag is bound, rebound or unbound at the relay
DirectorySet(cleanId, pubkey) ==
    /\ directory[cleanId] # pubkey
    /\ directory' = [directory EXCEPT ![cleanId] = pubkey]
    /\ UNCHANGED << now, dayPasses, core, obs, bootVars, lastRead, durationMs, pubkeyCache,
                    resolves >>

NextCache ==
    \/ \E unicityId \in ResolveIds : ResolveStart(unicityId)
    \/ \E i \in 1..MaxResolves, ok \in BOOLEAN : ResolveReturn(i, ok)
    \/ \E pubkey \in Bindings : DirectorySet(<<"alice">>, pubkey)
    \/ Tick

CacheSpec == Init /\ [][NextCache]_vars

\* ------------------------------------------------- NostrService.connect
\* the variables connect, disconnect and the relay's deliveries leave alone
services == << now, dayPasses, pendingPayments, timers, promise, resolveCalls,
               waiters, calls, outbox, transportError, obs, lastRead, durationMs,
               cacheVars, bootVars >>

\* connect() up to its await: nothing when connected, else a new client is
\* made, stored in this.client and its connection awaited
ConnectStart ==
    /\ relay.calls < MaxConnects
    /\ relay' = IF connected
                THEN [relay EXCEPT !.calls = @ + 1]
                ELSE [relay EXCEPT !.calls = @ + 1,
                                   !.created = @ + 1,
                                   !.client = relay.created + 1,
                                   !.subs = Append(@, 0),
                                   !.awaiting = @ \cup {relay.created + 1}]
    /\ UNCHANGED << connected, services >>

\* subscribeToPayments: one more subscription on this.client
subscribeToPayments(r) ==
    IF r.client = 0 THEN r ELSE [r EXCEPT !.subs[r.client] = @ + 1]

\* the awaited client.connect() of client k settles: when it resolves the
\* call sets connected and subscribes, when it rejects the call throws
ConnectSettled(k, ok) ==
    /\ k \in relay.awaiting
    /\ LET settled == [relay EXCEPT !.awaiting = @ \ {k}]
       IN  IF ok
           THEN /\ connected' = TRUE
                /\ relay' = subscribeToPayments([settled EXCEPT !.open = @ \cup {k}])
           ELSE /\ relay' = settled
                /\ UNCHANGED connected
    /\ UNCHANGED services

\* the subscriptions that are live: those on clients with an open connection
RECURSIVE LiveSubscriptions(_, _)
LiveSubscriptions(r, k) ==
    IF k = 0 THEN 0
    ELSE (IF k \in r.open THEN r.subs[k] ELSE 0) + LiveSubscriptions(r, k - 1)

\* the relay sends a token transfer addressed to the server: every live
\* subscription's onEvent starts handleIncomingTransfer
InboundTransfer ==
    /\ relay.open # {}
    /\ relay' = [relay EXCEPT !.handled = LiveSubscriptions(relay, relay.created)]
    /\ UNCHANGED << connected, services >>

NextConnect ==
    \/ ConnectStart
    \/ \E k \in 1..MaxConnects, ok \in BOOLEAN : ConnectSettled(k, ok)
    \/ Disconnect
    \/ InboundTransfer

\* main() has constructed the NostrService and is about to call connect()
ConnectInit ==
    /\ ServicesInit(DurationMs, FALSE)
    /\ env = ServingEnv
    /\ disk = { <<"mcp">> }
    /\ proc = ProcOf("connecting", loadConfig(ServingEnv),
                     <<"loadConfig", "identity", "connect">>, 1, 1, "minted")
    /\ runs = 1

ConnectSpec == ConnectInit /\ [][NextConnect]_vars

\* ------------------------------------------------------- the process start
\* what the services hold in memory, apart from the relay connection and the
\* tool calls
memory == << now, dayPasses, pendingPayments, timers, promise, resolveCalls,
             waiters, outbox, transportError, obs, lastRead, durationMs, cacheVars >>

\* main().catch: the error is logged and the process exits
Exited(p) == [p EXCEPT !.pc = "exited"]

\* loadNametagFromStorage(): null when the file does not exist, and null as
\* well after the file was read and parsed
loadNametagFromStorage(d, nametag) ==
    IF nametag \notin d THEN "none" ELSE "none"

\* saveNametagToStorage(token): writes nametag-{nametag}.json
saveNametagToStorage(d, nametag) == d \cup {nametag}

\* what an attempt of the mint loop can meet: the commitment accepted, the
\* commitment refused, the submission failing, the commitment not created
MintOutcomes == { "SUCCESS", "REJECTED", "submitError", "createError" }

\* the process is started with environment e: main() calls loadConfig and,
\* with a Config, constructs the IdentityService and awaits initialize()
MainStart(e) ==
    /\ proc.pc \in {"off", "exited"}
    /\ runs < MaxRuns
    /\ runs' = runs + 1
    /\ env' = e
    /\ LET config == loadConfig(e)
       IN  proc' = IF config.loaded
                   THEN ProcOf("initialize", config, <<"loadConfig", "identity">>,
                               0, 0, "none")
                   ELSE ProcOf("exited", NoConfig, <<"loadConfig">>, 0, 0, "none")
    /\ UNCHANGED << connected, calls, disk, relay, memory >>

\* initialize() up to ensureNametag: the stored token is used, or mintNametag
\* starts its first attempt
IdentityInitialize(ok) ==
    /\ proc.pc = "initialize"
    /\ LET storedToken == loadNametagFromStorage(disk, proc.config.nametag)
       IN  proc' = IF ~ok THEN Exited(proc)
                   ELSE IF storedToken # "none"
                        THEN [proc EXCEPT !.pc = "binding", !.nametagToken = storedToken]
                        ELSE [proc EXCEPT !.pc = "minting", !.attempt = 1]
    /\ UNCHANGED << connected, calls, env, disk, runs, relay, memory >>

\* variant: the loop gives up one attempt later
LastAttemptLate(p) == p.attempt = MAX_RETRIES + 1

\* attempt === MAX_RETRIES
LastAttempt(p) == p.attempt = MAX_RETRIES

\* one pass of the loop of mintNametag
SubmitMintCommitment(outcome) ==
    /\ proc.pc = "minting"
    /\ LET submitted == IF outcome = "createError" THEN 0 ELSE 1
           counted == [proc EXCEPT !.commits = @ + submitted]
       IN  proc' = IF outcome = "SUCCESS" THEN [counted EXCEPT !.pc = "proof"]
                   ELSE IF LastAttempt(proc) THEN Exited(counted)
                   ELSE [counted EXCEPT !.attempt = @ + 1]
    /\ UNCHANGED << connected, calls, env, disk, runs, relay, memory >>

\* mintNametag after the loop: the inclusion proof arrives, the token is
\* minted and saved; ensureNostrBinding starts
NametagMinted(ok) ==
    /\ proc.pc = "proof"
    /\ IF ok
       THEN /\ proc' = [proc EXCEPT !.pc = "binding", !.nametagToken = "minted"]
            /\ disk' = saveNametagToStorage(disk, proc.config.nametag)
       ELSE /\ proc' = Exited(proc)
            /\ UNCHANGED disk
    /\ UNCHANGED << connected, calls, env, runs, relay, memory >>

\* ensureNostrBinding ends; main constructs the services and awaits connect()
NostrBound(ok) ==
    /\ proc.pc = "binding"
    /\ proc' = IF ok
               THEN [proc EXCEPT !.pc = "connecting", !.steps = Append(@, "connect")]
               ELSE Exited(proc)
    /\ UNCHANGED << connected, calls, env, disk, runs, relay, memory >>

\* connect() ends: the subscription is live, main starts the HTTP server
NostrConnected(ok) ==
    /\ proc.pc = "connecting"
    /\ proc' = IF ok
               THEN [proc EXCEPT !.pc = "serving", !.steps = Append(@, "serve")]
               ELSE Exited(proc)
    /\ connected' = ok
    /\ relay' = IF ok THEN ConnectedRelay ELSE NoRelay
    /\ UNCHANGED << calls, env, disk, runs, memory >>

\* a tool call arrives at the HTTP server
ServeToolCall ==
    /\ proc.pc = "serving"
    /\ StartCall("check_access", <<"alice">>)

\* the process is stopped; what it held in memory is gone
ProcessStop ==
    /\ proc.pc = "serving"
    /\ proc' = [proc EXCEPT !.pc = "off"]
    /\ connected' = FALSE
    /\ calls' = <<>>
    /\ relay' = NoRelay
    /\ UNCHANGED << env, disk, runs, memory >>

NextStartup ==
    \/ \E e \in Envs : MainStart(e)
    \/ \E ok \in BOOLEAN : IdentityInitialize(ok)
    \/ \E outcome \in MintOutcomes : SubmitMintCommitment(outcome)
    \/ \E ok \in BOOLEAN : NametagMinted(ok)
    \/ \E ok \in BOOLEAN : NostrBound(ok)
    \/ \E ok \in BOOLEAN : NostrConnected(ok)
    \/ ServeToolCall
    \/ ProcessStop

\* no process has run yet on an empty DATA_DIR
StartupInit ==
    /\ ServicesInit(DurationMs, FALSE)
    /\ env = EmptyMap
    /\ disk = {}
    /\ proc = NotStarted
    /\ runs = 0

StartupSpec == StartupInit /\ [][NextStartup]_vars

TypeOK ==
    /\ now \in 0..MaxTime
    /\ connected \in BOOLEAN
    /\ Len(calls) <= MaxCalls
    /\ \A c \in CallIds : promise[c] \in {"none", "pending", "true", "false"}


\* ============================================================= properties
ConfirmCalls == { c \in 1..Len(calls) : calls[c].tool = "confirm_payment" }

SameAccount(c1, c2) == calls[c1].unicityId = calls[c2].unicityId

Waiting(c) == c \in 1..Len(calls) /\ calls[c].pc = "waiting"

Returned(c) == c \in 1..Len(calls) /\ calls[c].pc = "done"

Settled(c) == promise[c] \in {"true", "false"}

\* the payment requests sent for the calls of cs
SentFor(cs) == { r \in outbox : r.by \in cs }

\* C1: two confirm_payment calls of one account that are suspended at the same
\* time have sent exactly one payment request between them and await the same
\* promise, hence the same outcome.
C1_OneRequestPerAccount ==
    \A c1 \in ConfirmCalls, c2 \in ConfirmCalls :
        (c1 < c2 /\ SameAccount(c1, c2) /\ Waiting(c1) /\ Waiting(c2))
            => /\ Cardinality(SentFor({c1, c2})) = 1
               /\ calls[c1].awaits = calls[c2].awaits

\* C2: pendingPayments never holds two pending payments of one normalized
\* account handle.
C2_OnePendingPerAccount ==
    \A i \in 1..Len(pendingPayments), j \in 1..Len(pendingPayments) :
        i # j => ToLowerCase(pendingPayments[i].unicityId)
                    # ToLowerCase(pendingPayments[j].unicityId)

\* the keys whose access window a step creates or replaces
GrantedKeys == { k \in DOMAIN dayPasses' : k \notin DOMAIN dayPasses \/ dayPasses'[k] # dayPasses[k] }

\* C3: the window store changes only in the delivery of a token transfer that
\* pays at least the configured amount, and every window that step writes
\* belongs to an account with a pending payment request whose payer, the
\* pubkey the account resolves to, is the sender; no tool call, timeout or
\* other event creates, replaces or removes a window.
C3_WindowOnlyByPaidRequest ==
    [][ dayPasses' # dayPasses =>
          \E e \in Events :
              /\ OnEventRecorded(e)
              /\ Sufficient(e)
              /\ DOMAIN dayPasses \subseteq DOMAIN dayPasses'
              /\ \A k \in GrantedKeys :
                    \E i \in PaidPending(e) :
                        /\ ToLowerCase(pendingPayments[i].unicityId) = k
                        /\ queryPubkeyByNametag(pendingPayments[i].unicityId) = e.sender
      ]_vars

\* C3 witness: an access window is stored.
C3_Witness == DOMAIN dayPasses # {} /\ lastDelivery = "paying"

SpentRequestIds == { c \in CallIds : Settled(c) }

\* the pending payments registered for the account of call c
PendingOf(c) ==
    { i \in 1..Len(pendingPayments) :
        ToLowerCase(pendingPayments[i].unicityId) = ToLowerCase(calls[c].unicityId) }

C5_MatchResolvesTrue ==
    [][ \A e \in Events :
          (OnEventRecorded(e) /\ PaidPending(e) # {})
              => \E i \in 1..Len(pendingPayments) :
                    /\ pendingPayments[i].userPubkey = e.sender
                    /\ promise[pendingPayments[i].resolve] = "pending"
                    /\ ~MapHas(pendingPayments', pendingPayments[i].requestId)
                    /\ promise'[pendingPayments[i].resolve] = "true"
                    /\ resolveCalls'[pendingPayments[i].resolve] = 1
      ]_vars

\* C5 witness: the last delivery paid a pending payment and a promise is
\* resolved true.
C5_Witness ==
    /\ lastDelivery = "paying"
    /\ \E c \in CallIds : promise[c] = "true"

\* C6: the delivery of an event that is no token transfer, cannot be parsed,
\* carries no amount or too small an amount, or comes from a sender that is
\* the payer of no pending payment, leaves the pending payments, the promises,
\* the callers and the windows as they were and lets no error reach the
\* transport.
C6_OtherEventsIgnored ==
    [][ \A e \in Events :
          (OnEventRecorded(e) /\ PaidPending(e) = {})
              => /\ UNCHANGED << pendingPayments, promise, resolveCalls, waiters,
                                 calls, dayPasses, timers, outbox >>
                 /\ ~transportError'
      ]_vars

\* C6 witness: an event that pays no pending payment was delivered while a
\* payment was pending.
C6_Witness ==
    /\ lastDelivery = "foreign"
    /\ pendingPayments # <<>>
    /\ \E c \in CallIds : promise[c] = "pending"

\* call c is suspended on a payment-wait promise, or its own is unsettled
Busy(c) == Waiting(c) \/ promise[c] = "pending"

Returns(c) == calls[c].pc # "done" /\ calls'[c].pc = "done"

\* C9: a confirm_payment call that found no valid pass and during which the
\* payer's transfer of at least the configured amount arrived returns
\* payment_confirmed, the account then holding a valid pass with the full
\* duration remaining.
C9_PaidCallConfirmed ==
    [][ \A c \in ConfirmCalls :
          (/\ Returns(c)
           /\ c \in paidCalls'
           /\ calls'[c].result \in {"payment_confirmed", "payment_timeout"})
              => /\ calls'[c].result = "payment_confirmed"
                 /\ hasValidPass(dayPasses', calls[c].unicityId, now')
                 /\ getRemainingTime(dayPasses', calls[c].unicityId, now') = DurationMs
      ]_vars

\* C10: when get_game answered payment_required and the payer's transfer
\* arrived before the next tool call, a confirm_payment of the same account
\* that follows and reports a status reports payment_confirmed or
\* already_active, never payment_timeout.
C10_PaidBeforeConfirm ==
    \A g \in 1..Len(calls), c \in ConfirmCalls :
        (/\ calls[g].tool = "get_game"
         /\ calls[g].result = "payment_required"
         /\ g \in paidCalls
         /\ c = g + 1
         /\ ToLowerCase(calls[c].unicityId) = ToLowerCase(calls[g].unicityId)
         /\ Returned(c)
         /\ calls[c].result # "threw")
            => calls[c].result \in {"payment_confirmed", "already_active"}


\* the window stored for the account of call c, read from the store itself
PassKey(c) == ToLowerCase(calls[c].unicityId)

HoldsPass(dp, c, t) == PassKey(c) \in DOMAIN dp /\ t < dp[PassKey(c)].expiresAt

Unknown(c) == queryPubkeyByNametag(calls[c].unicityId) = Null

\* C13: a check_access, get_game or confirm_payment whose handle resolves to
\* nothing returns the resolution failure in that step and sends no payment
\* request, registers no pending payment and leaves the windows as they were.
C13_ResolutionFailureIsInert ==
    [][ \A c \in 1..Len(calls) :
          ((CheckAccess(c) \/ GetGame(c) \/ ConfirmPayment(c)) /\ Unknown(c))
              => /\ calls'[c].pc = "done"
                 /\ calls'[c].result = "resolution_failed"
                 /\ UNCHANGED << outbox, pendingPayments, timers, promise,
                                 waiters, dayPasses >>
      ]_vars

\* C13 witness: calls of two different tools returned the resolution failure.
C13_Witness ==
    \E c1 \in 1..Len(calls), c2 \in 1..Len(calls) :
        /\ calls[c1].tool # calls[c2].tool
        /\ calls[c1].result = "resolution_failed"
        /\ calls[c2].result = "resolution_failed"


TrackerRead ==
    \E unicityId \in TrackerIds :
        \/ TrackerHasValidPass(unicityId)
        \/ TrackerGetPass(unicityId)
        \/ TrackerGetRemainingTime(unicityId)

\* C15: the window a getPass returns, and every stored window, expires at its
\* grantedAt plus the duration exactly; a hasValidPass, getPass or
\* getRemainingTime keeps every unexpired window and changes the grantedAt
\* and expiresAt of no window.
C15_NoDriftFromReads ==
    [][ /\ (lastRead'.op = "getPass" /\ lastRead'.found)
              => lastRead'.expiresAt = lastRead'.grantedAt + durationMs
        /\ \A k \in DOMAIN dayPasses' :
              dayPasses'[k].expiresAt = dayPasses'[k].grantedAt + durationMs
        /\ TrackerRead =>
              \A k \in DOMAIN dayPasses :
                  /\ now < dayPasses[k].expiresAt => k \in DOMAIN dayPasses'
                  /\ k \in DOMAIN dayPasses' => dayPasses'[k] = dayPasses[k]
      ]_vars

\* C15 witness: a getPass returned a window some time after its grant.
C15_Witness ==
    /\ lastRead.op = "getPass"
    /\ lastRead.found
    /\ lastRead.at > lastRead.grantedAt

\* C16: a grant for a handle that holds an unexpired window leaves one window
\* under its key, expiring at the time of this grant plus the duration, and
\* adds no key.
C16_RegrantReplaces ==
    [][ \A unicityId \in TrackerIds :
          (TrackerGrant(unicityId) /\ Unexpired(dayPasses, unicityId, now))
              => /\ DOMAIN dayPasses' = DOMAIN dayPasses
                 /\ dayPasses'[ToLowerCase(unicityId)].grantedAt = now
                 /\ dayPasses'[ToLowerCase(unicityId)].expiresAt = now + durationMs
                 /\ dayPasses'[ToLowerCase(unicityId)].expiresAt
                        # dayPasses[ToLowerCase(unicityId)].expiresAt + durationMs
      ]_vars

\* C16 witness: the last call granted a window to a handle that held an
\* unexpired one granted earlier.
C16_Witness ==
    /\ lastRead.op = "grantDayPass"
    /\ lastRead.had
    /\ lastRead.at > 0

\* C17: a hasValidPass that returned true and a getPass that returned a
\* window found a window stored for the handle with the time before its
\* expiresAt; the window getPass returned was not expired.
C17_NoExpiredReported ==
    (lastRead.op \in {"hasValidPass", "getPass"} /\ lastRead.found)
        => /\ lastRead.stored
           /\ lastRead.had
           /\ lastRead.op = "getPass" => lastRead.at < lastRead.expiresAt

\* C17 witness: a getPass found a stored window expired and returned none.
C17_Witness ==
    /\ lastRead.op = "getPass"
    /\ lastRead.stored
    /\ ~lastRead.had
    /\ ~lastRead.found


\* C18: getRemainingTime returns max(0, expiresAt - now) of the stored window
\* and 0 when none is stored; it returns 0 exactly when no window is stored or
\* the stored one is expired, and a positive value exactly when hasValidPass
\* is true at that instant, before and after the call.
C18_RemainingMatchesValidity ==
    [][ \A unicityId \in TrackerIds :
          TrackerGetRemainingTime(unicityId) =>
              LET k == ToLowerCase(unicityId)
                  r == lastRead'.remaining
              IN  /\ r = IF k \in DOMAIN dayPasses
                         THEN Max(0, dayPasses[k].expiresAt - now)
                         ELSE 0
                  /\ (r = 0) <=> ~Unexpired(dayPasses, unicityId, now)
                  /\ (r > 0) <=> hasValidPass(dayPasses, unicityId, now)
                  /\ (r > 0) <=> hasValidPass(dayPasses', unicityId, now')
      ]_vars

\* C18 witness: getRemainingTime returned 0 for a window that was stored and
\* expired.
C18_Witness ==
    /\ lastRead.op = "getRemainingTime"
    /\ lastRead.stored
    /\ ~lastRead.had
    /\ lastRead.remaining = 0

\* two spellings of one handle
Spellings == { <<"alice">>, <<"Alice">> }

\* C19: after a grant under one spelling of a handle, hasValidPass and getPass
\* succeed under every spelling, and the store never holds more than one
\* window for the spellings of a handle.
C19_OneWindowPerHandle ==
    [][ /\ \A unicityId \in Spellings :
              TrackerGrant(unicityId) =>
                  \A other_ \in Spellings :
                      /\ hasValidPass(dayPasses', other_, now')
                      /\ getPassFound(dayPasses', other_, now')
        /\ Cardinality({ k \in DOMAIN dayPasses' : k \in Spellings }) <= 1
      ]_vars

\* C19 witness: a lookup under one spelling found the window granted under
\* the other, after both spellings had been granted.
C19_Witness ==
    /\ lastRead.op \in {"hasValidPass", "getPass"}
    /\ lastRead.found
    /\ lastRead.id \in Spellings
    /\ dayPasses[ToLowerCase(lastRead.id)].unicityId \in Spellings \ {lastRead.id}


\* C20: resolvePubkey returns from the cache, with no directory lookup and the
\* cache as it was, exactly when the cache holds an entry for the clean id
\* whose age is below the freshness window; otherwise it makes one lookup,
\* and when the lookup yields a pubkey it stores that pubkey stamped with the
\* time of the return and returns it.
C20_CacheHitIffFresh ==
    [][ /\ \A unicityId \in ResolveIds :
              ResolveStart(unicityId) =>
                  LET k == cleanUnicityId(unicityId)
                      fresh == /\ k \in DOMAIN pubkeyCache
                               /\ now - pubkeyCache[k].timestamp < PUBKEY_CACHE_TTL_MS
                      r == resolves'[Len(resolves')]
                  IN  /\ fresh <=> (r.pc = "done" /\ r.lookups = 0)
                      /\ fresh => r.result = pubkeyCache[k].pubkey
                      /\ ~fresh => (r.pc = "querying" /\ r.lookups = 1)
        /\ \A i \in 1..Len(resolves) :
              ResolveReturn(i, TRUE) =>
                  LET k == resolves[i].cleanId
                  IN  /\ resolves'[i].lookups = 1
                      /\ resolves'[i].result = directory[k]
                      /\ directory[k] # Null =>
                            pubkeyCache'[k] = [pubkey |-> directory[k], timestamp |-> now]
                      /\ directory[k] = Null => pubkeyCache' = pubkeyCache
      ]_vars

\* C20 witness: a call made a lookup and stored the pubkey, and a later call
\* was answered with that pubkey from the cache without a lookup.
C20_Witness ==
    \E i \in 1..Len(resolves), j \in 1..Len(resolves) :
        /\ i < j
        /\ resolves[i].pc = "done"
        /\ resolves[i].lookups = 1
        /\ resolves[i].result # Null
        /\ resolves[j].pc = "done"
        /\ resolves[j].saw = "fresh"
        /\ resolves[j].lookups = 0
        /\ resolves[j].result = resolves[i].result

\* C21: the pubkey cache never holds an entry for a not-found answer; a
\* resolvePubkey call that finds no fresh entry for the clean id makes a
\* directory lookup, and returns the directory's answer of that moment, which
\* is not-found even while a stale entry of the id is still stored.
C21_NotFoundNeverCached ==
    [][ /\ \A k \in DOMAIN pubkeyCache' : pubkeyCache'[k].pubkey # Null
        /\ \A unicityId \in ResolveIds :
              ResolveStart(unicityId) =>
                  LET k == cleanUnicityId(unicityId)
                      fresh == /\ k \in DOMAIN pubkeyCache
                               /\ now - pubkeyCache[k].timestamp < PUBKEY_CACHE_TTL_MS
                      r == resolves'[Len(resolves')]
                  IN  ~fresh => (r.pc = "querying" /\ r.lookups = 1)
        /\ \A i \in 1..Len(resolves) :
              ResolveReturn(i, TRUE) =>
                  LET k == resolves[i].cleanId
                  IN  /\ resolves'[i].result = directory[k]
                      /\ directory[k] = Null =>
                            /\ resolves'[i].result = Null
                            /\ pubkeyCache' = pubkeyCache
      ]_vars

\* C21 witness: a call that found a stale entry looked the handle up, was
\* answered not-found and returned it, the stale entry still being stored.
C21_Witness ==
    \E j \in 1..Len(resolves) :
        /\ resolves[j].pc = "done"
        /\ ~resolves[j].threw
        /\ resolves[j].saw = "stale"
        /\ resolves[j].lookups = 1
        /\ resolves[j].result = Null
        /\ resolves[j].cleanId \in DOMAIN pubkeyCache
        /\ pubkeyCache[resolves[j].cleanId].pubkey # Null

\* C22: when the directory lookup of a resolvePubkey call fails, the call
\* ends with the error after the one lookup it made, and the pubkey cache is
\* as it was; no call ever makes a second lookup.
C22_LookupErrorPropagates ==
    [][ /\ \A i \in 1..Len(resolves) :
              ResolveReturn(i, FALSE) =>
                  /\ resolves'[i].pc = "done"
                  /\ resolves'[i].threw
                  /\ resolves'[i].lookups = 1
                  /\ pubkeyCache' = pubkeyCache
        /\ \A i \in 1..Len(resolves') : resolves'[i].lookups <= 1
      ]_vars

\* C22 witness: a call ended with the lookup's error while the cache held an
\* entry stored by an earlier call.
C22_Witness ==
    \E i \in 1..Len(resolves), j \in 1..Len(resolves) :
        /\ i # j
        /\ resolves[i].pc = "done" /\ resolves[i].threw /\ resolves[i].lookups = 1
        /\ resolves[j].pc = "done" /\ resolves[j].lookups = 1
        /\ resolves[j].cleanId \in DOMAIN pubkeyCache

\* the calls whose payment-request send failed
SendFailures == { c \in 1..Len(calls) : calls[c].requestId # 0 /\ calls[c].result = "threw" }

\* C23: when the send of a payment request fails, the call that made it ends
\* with the error in that step, nothing is sent, and neither then nor later is
\* a pending payment, a timer or a promise registered for that request.
C23_FailedSendRegistersNothing ==
    [][ /\ \A c \in 1..Len(calls) :
              (ConfirmPaymentSent(c, FALSE) \/ GetGameSent(c, FALSE)) =>
                  /\ calls'[c].pc = "done"
                  /\ calls'[c].result = "threw"
                  /\ pendingPayments' = pendingPayments
                  /\ timers' = timers
                  /\ outbox' = outbox
        /\ \A c \in SendFailures' :
              /\ ~MapHas(pendingPayments', calls'[c].requestId)
              /\ \A t \in timers' : t.requestId # calls'[c].requestId
              /\ \A r \in outbox' : r.requestId # calls'[c].requestId
              /\ promise'[c] = "none"
      ]_vars

\* C23 witness: the send of a confirm_payment call failed while the request
\* of another call is registered with its timer.
C23_Witness ==
    \E c \in SendFailures :
        /\ calls[c].tool = "confirm_payment"
        /\ pendingPayments # <<>>
        /\ timers # {}

\* the results a handler returns: the statuses and the isError result
StructuredResults ==
    { "resolution_failed", "game_not_found", "has_access", "no_access", "access_granted",
      "payment_required", "already_active", "payment_confirmed", "payment_timeout" }

\* C24: every call of check_access, get_game and confirm_payment that has
\* ended has ended with a result the handler returned, a named status or an
\* error result with a message; none has ended with an exception leaving the
\* handler.
C24_StructuredResult ==
    \A c \in 1..Len(calls) :
        calls[c].pc = "done" => calls[c].result \in StructuredResults

\* a required variable is missing from the environment of the process
MissingSetting ==
    \/ "MCP_NAMETAG" \notin DOMAIN env
    \/ env["MCP_NAMETAG"] = <<>>
    \/ "PAYMENT_COIN_ID" \notin DOMAIN env
    \/ env["PAYMENT_COIN_ID"] = ""

\* C25: a process started without MCP_NAMETAG or PAYMENT_COIN_ID has exited in
\* loadConfig, having begun neither identity initialization nor the relay
\* connection nor the serving of tool calls; and a process that has begun any
\* of these has completed loadConfig first.
C25_ConfigBeforeAnything ==
    /\ (proc.pc # "off" /\ MissingSetting) =>
            /\ proc.pc = "exited"
            /\ proc.steps = <<"loadConfig">>
            /\ ~proc.config.loaded
            /\ ~connected
            /\ calls = <<>>
    /\ (proc.pc \notin {"off", "exited"} \/ Len(proc.steps) > 1) =>
            /\ proc.steps[1] = "loadConfig"
            /\ proc.config.loaded
            /\ ~MissingSetting
    /\ (connected \/ calls # <<>>) => proc.config.loaded

\* C25 witness: on a DATA_DIR left by an earlier run, a process started
\* without MCP_NAMETAG has exited in loadConfig.
C25_Witness ==
    /\ runs = 2
    /\ disk # {}
    /\ "MCP_NAMETAG" \notin DOMAIN env
    /\ proc.pc = "exited"
    /\ proc.steps = <<"loadConfig">>

\* C26: a process that starts with the token file of its nametag in DATA_DIR
\* does not enter the mint: it is never submitting a commitment or waiting for
\* an inclusion proof while the file of an earlier run is there.
C26_StoredTokenReused ==
    proc.pc \in {"minting", "proof"} => proc.config.nametag \notin disk

\* the pending payments a step registers
Registered ==
    { i \in 1..Len(pendingPayments') :
        ~MapHas(pendingPayments, pendingPayments'[i].requestId) }

\* C27: whenever a pending payment is registered, the account it is for has
\* no valid access window at that moment.
C27_RegisteredOnlyWithoutWindow ==
    [][ \A i \in Registered :
            ~Unexpired(dayPasses, pendingPayments'[i].unicityId, now)
      ]_vars

\* index of the pending payment with the request id, 0 when there is none
IndexOf(m, requestId) ==
    IF MapHas(m, requestId) THEN CHOOSE i \in 1..Len(m) : m[i].requestId = requestId ELSE 0

\* C28: a transfer whose reply-to reference is the id of a pending payment
\* that it pays resolves that pending payment: it is the one removed and its
\* promise is the one resolved true.
C28_ReplyToPreferred ==
    [][ \A e \in TaggedEvents :
            LET i == IndexOf(pendingPayments, e.replyTo)
            IN  (i # 0 /\ i \in PaidPending(e) /\ OnEvent(e)) =>
                    /\ ~MapHas(pendingPayments', e.replyTo)
                    /\ promise'[pendingPayments[i].resolve] = "true"
                    /\ Len(pendingPayments') = Len(pendingPayments) - 1
      ]_vars

\* C29: when a transfer pays several pending payments, the first of them in
\* the order of pendingPayments is removed and its promise resolved true;
\* every other pending payment stays where it was, its promise pending.
C29_FirstMatchOnly ==
    [][ \A e \in TaggedEvents :
            (Cardinality(PaidPending(e)) >= 2 /\ OnEvent(e)) =>
                LET f == CHOOSE i \in PaidPending(e) : \A j \in PaidPending(e) : i <= j
                    rest == { i \in 1..Len(pendingPayments) : i # f }
                IN  /\ ~MapHas(pendingPayments', pendingPayments[f].requestId)
                    /\ promise[pendingPayments[f].resolve] = "pending"
                    /\ promise'[pendingPayments[f].resolve] = "true"
                    /\ Len(pendingPayments') = Len(pendingPayments) - 1
                    /\ \A i \in rest :
                          /\ \E j \in 1..Len(pendingPayments') :
                                pendingPayments'[j] = pendingPayments[i]
                          /\ promise'[pendingPayments[i].resolve] = "pending"
                          /\ calls'[pendingPayments[i].resolve]
                                = calls[pendingPayments[i].resolve]
      ]_vars

\* C29 witness: the request of alice and the request of carol, who share a
\* payer, were both registered when a transfer of that payer arrived; the
\* first was confirmed, the second is still registered and pending.
C29_Witness ==
    /\ Len(calls) = 2
    /\ calls[1].unicityId = <<"alice">>
    /\ calls[1].result = "payment_confirmed"
    /\ promise[1] = "true"
    /\ promise[2] = "pending"
    /\ Len(pendingPayments) = 1
    /\ pendingPayments[1].unicityId = <<"carol">>
    /\ pendingPayments[1].userPubkey = calls[1].pubkey
    /\ <<"alice">> \in DOMAIN dayPasses
    /\ pendingPayments[1].createdAt < dayPasses[<<"alice">>].grantedAt

\* C30: a transfer of another coin than a pending payment asks for leaves
\* that pending payment registered and its promise as it was.
C30_OtherCoinIgnored ==
    [][ \A e \in TaggedEvents :
            OnEvent(e) =>
                \A i \in 1..Len(pendingPayments) :
                    pendingPayments[i].coinId # e.coinId =>
                        /\ MapHas(pendingPayments', pendingPayments[i].requestId)
                        /\ promise'[pendingPayments[i].resolve]
                              = promise[pendingPayments[i].resolve]
      ]_vars

\* C31: a pending payment is registered only under a request id that is not a
\* key of pendingPayments, so that no registration replaces the entry of
\* another request.
C31_RequestIdFresh ==
    [][ \A c \in 1..Len(calls) :
            ConfirmPaymentSent(c, TRUE) =>
                /\ ~MapHas(pendingPayments, calls[c].requestId)
                /\ Len(pendingPayments') = Len(pendingPayments) + 1
      ]_vars

\* C32: a getPass for a handle whose stored window is expired removes that
\* window, keeps every other and returns none; a getPass for a handle whose
\* stored window is not expired returns that window and leaves the store as
\* it was.
C32_GetPassReclaims ==
    [][ \A unicityId \in TrackerIds :
          TrackerGetPass(unicityId) =>
              LET k == ToLowerCase(unicityId)
              IN  /\ (k \in DOMAIN dayPasses /\ now >= dayPasses[k].expiresAt) =>
                        /\ ~lastRead'.found
                        /\ DOMAIN dayPasses' = (DOMAIN dayPasses) \ {k}
                        /\ \A x \in DOMAIN dayPasses' : dayPasses'[x] = dayPasses[x]
                  /\ (k \in DOMAIN dayPasses /\ now < dayPasses[k].expiresAt) =>
                        /\ lastRead'.found
                        /\ lastRead'.grantedAt = dayPasses[k].grantedAt
                        /\ lastRead'.expiresAt = dayPasses[k].expiresAt
                        /\ dayPasses' = dayPasses
      ]_vars

\* C32 witness: a getPass met an expired window, returned none and the window
\* is gone, another handle's window being kept.
C32_Witness ==
    /\ lastRead.op = "getPass"
    /\ lastRead.stored
    /\ ~lastRead.had
    /\ ~lastRead.found
    /\ ToLowerCase(lastRead.id) \notin DOMAIN dayPasses
    /\ dayPasses # EmptyMap

\* C33: cleanup removes the windows with now >= expiresAt and no other, and
\* for every handle and every time from now on hasValidPass, getPass and
\* getRemainingTime answer from the swept store what they answer from the
\* unswept one.
C33_CleanupInvisible ==
    [][ TrackerCleanup =>
          /\ DOMAIN dayPasses'
                = { k \in DOMAIN dayPasses : now < dayPasses[k].expiresAt }
          /\ \A k \in DOMAIN dayPasses' : dayPasses'[k] = dayPasses[k]
          /\ \A unicityId \in TrackerIds, t \in now..MaxTime :
                LET k == ToLowerCase(unicityId)
                IN  /\ hasValidPass(dayPasses', unicityId, t)
                          = hasValidPass(dayPasses, unicityId, t)
                    /\ getPassFound(dayPasses', unicityId, t)
                          = getPassFound(dayPasses, unicityId, t)
                    /\ getPassFound(dayPasses, unicityId, t)
                          => dayPasses'[k] = dayPasses[k]
                    /\ getRemainingTime(dayPasses', unicityId, t)
                          = getRemainingTime(dayPasses, unicityId, t)
      ]_vars

\* C33 witness: a cleanup removed an expired window while an unexpired one
\* was stored, and the unexpired one is still there.
C33_Witness ==
    /\ lastRead.op = "cleanup"
    /\ lastRead.had
    /\ lastRead.remaining >= 1
    /\ \E k \in DOMAIN dayPasses : now < dayPasses[k].expiresAt

\* C34: every stored window expires after it was granted.
C34_ExpiresAfterGrant ==
    \A k \in DOMAIN dayPasses : dayPasses[k].expiresAt > dayPasses[k].grantedAt

\* C35: a resolvePubkey call for a handle of which some spelling, differing
\* in case or sigil only, has a fresh cache entry makes no directory lookup
\* and returns the pubkey of that entry.
C35_SpellingsShareEntry ==
    [][ \A unicityId \in ResolveIds :
          ResolveStart(unicityId) =>
              \A k \in DOMAIN pubkeyCache :
                  ( /\ ToLowerCase(k) = ToLowerCase(cleanUnicityId(unicityId))
                    /\ now - pubkeyCache[k].timestamp < PUBKEY_CACHE_TTL_MS ) =>
                      LET r == resolves'[Len(resolves')]
                      IN  /\ r.pc = "done"
                          /\ r.lookups = 0
                          /\ r.result = pubkeyCache[k].pubkey
      ]_vars

\* C36: whenever check_access reports hasAccess true, remainingTime in the
\* same result is a remaining duration and never "No active pass", also when
\* the clock advances between hasValidPass and formatRemainingTime.
\* Refuted: a pass that expires between the two reads is reported as
\* hasAccess true with remainingTime "No active pass".
C36_RemainingWhenAccess ==
    \A c \in 1..Len(calls) :
        calls[c].result = "has_access" => calls[c].remainingTime = "remaining"

\* game arguments that normalize to no key of the game list
UnknownGames ==
    { game \in GameArgs : game # <<>> /\ normalizeGame(game) \notin GAMES }

\* C37: get_game and confirm_payment called with a game identifier that is
\* not in the game list return the error result and neither send a payment
\* request nor register a pending payment, with or without a valid pass.
\* Refuted: "constructor" names an inherited property of the GAMES object,
\* passes the validation and the handler goes on to grant or to bill.
C37_UnknownGameRejected ==
    \A c \in 1..Len(calls) :
        calls[c].game \in UnknownGames =>
            /\ calls[c].pc \in {"resolving", "done"}
            /\ calls[c].pc = "done" =>
                   calls[c].result \in {"threw", "resolution_failed", "game_not_found"}

\* C38: after any sequence of connect calls on one NostrService, overlapping
\* ones included, exactly one relay client and one token-transfer subscription
\* exist, and an inbound transfer is handled exactly once.
\* Refuted: two connect calls that overlap both pass the connected test, make
\* a client each and subscribe twice on the client made last.
C38_OneClientOneSubscription ==
    (connected /\ relay.awaiting = {}) =>
        /\ relay.open = {relay.client}
        /\ relay.subs[relay.client] = 1
        /\ relay.handled <= 1

\* C39: mintNametag submits at most 3 mint commitments; it goes on to wait
\* for the inclusion proof only after a submission returned SUCCESS, and after
\* a third failed attempt (status other than SUCCESS, or an exception) it
\* fails: no proof is awaited, no token minted, nothing saved to storage.
C39_MintAttemptsBounded ==
    [][ /\ proc'.commits <= 3
        /\ (proc.pc # "proof" /\ proc'.pc = "proof")
              => (proc.pc = "minting" /\ SubmitMintCommitment("SUCCESS"))
        /\ \A outcome \in MintOutcomes \ {"SUCCESS"} :
              (proc.pc = "minting" /\ proc.attempt = 3 /\ SubmitMintCommitment(outcome))
                  => /\ proc'.pc = "exited"
                     /\ proc'.nametagToken = "none"
                     /\ disk' = disk ]_vars

\* three commitments were submitted, the run has failed and DATA_DIR is empty
C39_Witness ==
    /\ proc.pc = "exited"
    /\ proc.attempt = 3
    /\ proc.commits = 3
    /\ proc.nametagToken = "none"
    /\ disk = {}

====
